---- MODULE Spec2Model ----
(***************************************************************************)
(* A model of minecraft_gen.py: the grid functions of the terrain          *)
(* generation pipeline.  Every function of the source is a pure function   *)
(* of its arguments; each component below has its own specification whose  *)
(* initial states draw the arguments from bounded sets and whose actions   *)
(* apply the function as the source computes it.  Python's 0-based grids   *)
(* are sequences of rows here, so vor_map[i, j] is At(vor_map, i, j).      *)
(***************************************************************************)
EXTENDS Integers, Sequences, FiniteSets, TLC

VARIABLES
    \* get_boundary
    vor_map, kernel, boundary_map, pos, pcB,
    \* average_cells, fill_cells
    vor, data, average, image, pcC,
    \* quantize
    q_data, q_n, q_out, pcQ,
    \* apply_height_map
    im_map, normal_light, smooth_map, land_mask, out_map, pcH,
    \* place_trees, generate_trees
    n_trees, mask, river_land_mask, adjusted_height_river_map,
    relaxed, trees, output_trees, pcT,
    \* compute_normal_map
    gradient_x, gradient_y, normal_map, pcN,
    \* voronoi_map
    regions, vmap, region_i, pcV,
    \* relax
    points, k, new_points, iter, tess, pcR

varsB == <<vor_map, kernel, boundary_map, pos, pcB>>
varsC == <<vor, data, average, image, pcC>>
varsQ == <<q_data, q_n, q_out, pcQ>>
varsH == <<im_map, normal_light, smooth_map, land_mask, out_map, pcH>>
varsT == <<n_trees, mask, river_land_mask, adjusted_height_river_map,
           relaxed, trees, output_trees, pcT>>
varsN == <<gradient_x, gradient_y, normal_map, pcN>>
varsV == <<regions, vmap, region_i, pcV>>
varsR == <<points, k, new_points, iter, tess, pcR>>
vars == <<varsB, varsC, varsQ, varsH, varsT, varsN, varsV, varsR>>

\* A component that is not under check holds no call.
IdleB == vor_map = <<>> /\ kernel = 0 /\ boundary_map = <<>> /\ pos = 0 /\ pcB = "idle"
IdleC == vor = <<>> /\ data = <<>> /\ average = <<>> /\ image = <<>> /\ pcC = "idle"
IdleQ == q_data = <<>> /\ q_n = 0 /\ q_out = <<>> /\ pcQ = "idle"
IdleH ==
    /\ im_map = <<>> /\ normal_light = <<>> /\ smooth_map = <<>>
    /\ land_mask = <<>> /\ out_map = <<>> /\ pcH = "idle"
IdleT ==
    /\ n_trees = 0 /\ mask = <<>> /\ river_land_mask = <<>>
    /\ adjusted_height_river_map = <<>> /\ relaxed = {} /\ trees = {}
    /\ output_trees = <<>> /\ pcT = "idle"
IdleN == gradient_x = <<>> /\ gradient_y = <<>> /\ normal_map = <<>> /\ pcN = "idle"
IdleV == regions = <<>> /\ vmap = <<>> /\ region_i = 0 /\ pcV = "idle"
IdleR ==
    /\ points = <<>> /\ k = 0 /\ new_points = <<>> /\ iter = 0
    /\ tess = <<>> /\ pcR = "idle"

\* Every component but c is idle, and stays so.
IdleExcept(c) ==
    /\ IF c = "B" THEN TRUE ELSE IdleB
    /\ IF c = "C" THEN TRUE ELSE IdleC
    /\ IF c = "Q" THEN TRUE ELSE IdleQ
    /\ IF c = "H" THEN TRUE ELSE IdleH
    /\ IF c = "T" THEN TRUE ELSE IdleT
    /\ IF c = "N" THEN TRUE ELSE IdleN
    /\ IF c = "V" THEN TRUE ELSE IdleV
    /\ IF c = "R" THEN TRUE ELSE IdleR

Frame(c) ==
    /\ IF c = "B" THEN TRUE ELSE UNCHANGED varsB
    /\ IF c = "C" THEN TRUE ELSE UNCHANGED varsC
    /\ IF c = "Q" THEN TRUE ELSE UNCHANGED varsQ
    /\ IF c = "H" THEN TRUE ELSE UNCHANGED varsH
    /\ IF c = "T" THEN TRUE ELSE UNCHANGED varsT
    /\ IF c = "N" THEN TRUE ELSE UNCHANGED varsN
    /\ IF c = "V" THEN TRUE ELSE UNCHANGED varsV
    /\ IF c = "R" THEN TRUE ELSE UNCHANGED varsR

(***************************************************************************)
(* Shared helpers                                                          *)
(***************************************************************************)
Min(a, b) == IF a <= b THEN a ELSE b
Max(a, b) == IF a >= b THEN a ELSE b

\* g[i, j] of a numpy grid, i and j 0-based.
At(g, i, j) == g[i + 1][j + 1]

\* The square grids of side s over a value set.
Grids(s, V) == [1..s -> [1..s -> V]]

\* g with g[i, j] = v.
Put(g, i, j, v) == [g EXCEPT ![i + 1][j + 1] = v]

(***************************************************************************)
(* get_boundary (BoundaryDetector)                                         *)
(***************************************************************************)
BSize == 3
MaxKernel == 2
BMaxId == 1

\* clip = lambda x: max(0, min(size - 1, x))
clip(x, size) == Max(0, Min(size - 1, x))

\* vor_map[clip(i-kernel):clip(i+kernel+1), clip(j-kernel):clip(j+kernel+1)]
\* .flatten(): the values of the sub-grid in row-major order.
WindowFlat(g, i, j, kr, size) ==
    LET rlo == clip(i - kr, size)
        rhi == clip(i + kr + 1, size)
        clo == clip(j - kr, size)
        chi == clip(j + kr + 1, size)
        h == Max(0, rhi - rlo)
        w == Max(0, chi - clo)
    IN [t \in 1..(h * w) |-> At(g, rlo + ((t - 1) \div w), clo + ((t - 1) % w))]

\* check_for_mult(a), for a non-empty a: b = a[0]; a[i] != b for some
\* i in range(len(a) - 1).
check_for_mult(a) == \E t \in 1..(Len(a) - 1) : a[t] # a[1]

\* One iteration of the double loop: the pixel (i, j) = divmod(pos, m).
\* check_for_mult reads a[0], an IndexError on an empty window.
GetBoundaryPixel ==
    /\ pcB = "loop"
    /\ LET n == Len(vor_map)
           i == pos \div n
           j == pos % n
           a == WindowFlat(vor_map, i, j, kernel, n)
       IN IF Len(a) = 0
          THEN /\ pcB' = "IndexError"
               /\ UNCHANGED <<boundary_map, pos>>
          ELSE /\ boundary_map' = Put(boundary_map, i, j, check_for_mult(a))
               /\ pos' = pos + 1
               /\ pcB' = IF pos + 1 = n * n THEN "done" ELSE "loop"
    /\ UNCHANGED <<vor_map, kernel>>

InitBoundary ==
    /\ \E s \in 1..BSize : vor_map \in Grids(s, 0..BMaxId)
    /\ kernel \in 0..MaxKernel
    /\ boundary_map = [r \in 1..Len(vor_map) |-> [c \in 1..Len(vor_map) |-> FALSE]]
    /\ pos = 0
    /\ pcB = "loop"
    /\ IdleExcept("B")

NextBoundary == GetBoundaryPixel /\ Frame("B")

SpecBoundary == InitBoundary /\ [][NextBoundary]_vars

\* The ids of the (2*kernel+1) x (2*kernel+1) window centred on (i, j),
\* clipped to the rows and columns 0..size-1 inclusive.
NeighbourIds(g, i, j, kr) ==
    LET n == Len(g)
    IN {At(g, r, c) : r \in Max(0, i - kr)..Min(n - 1, i + kr),
                      c \in Max(0, j - kr)..Min(n - 1, j + kr)}

\* C1: for every kernel >= 1, the mask get_boundary returns has
\* boundary_map[i, j] True exactly when the inclusive clipped window centred
\* on (i, j) holds more than one distinct cell id.
C1_BoundaryIffMultipleIds ==
    (kernel >= 1 /\ pcB = "done") =>
        \A i \in 0..(Len(vor_map) - 1), j \in 0..(Len(vor_map) - 1) :
            At(boundary_map, i, j)
                <=> Cardinality(NeighbourIds(vor_map, i, j, kernel)) > 1

\* C2: with kernel = 0 get_boundary completes for every pixel and flags a
\* pixel exactly when one of its immediate neighbours holds a different id.
C2_KernelZeroImmediateNeighbours ==
    kernel = 0 =>
        /\ pcB # "IndexError"
        /\ pcB = "done" =>
              \A i \in 0..(Len(vor_map) - 1), j \in 0..(Len(vor_map) - 1) :
                  At(boundary_map, i, j)
                      <=> Cardinality(NeighbourIds(vor_map, i, j, 1)) > 1

(***************************************************************************)
(* Binary floating point, as numpy's float64 arrays compute: a value is    *)
(* <<m, e>> = m * 2^e with m odd (or <<0, 0>>), |m| < 2^MantBits, and each *)
(* operation rounds its exact result to nearest, ties to even.  The        *)
(* mantissa is MantBits wide instead of 53 so that TLC can enumerate it.   *)
(***************************************************************************)
MantBits == 3

Abs(x) == IF x < 0 THEN -x ELSE x

RECURSIVE BitLen(_)
BitLen(x) == IF x = 0 THEN 0 ELSE 1 + BitLen(x \div 2)

RECURSIVE Canon(_, _)
Canon(m, e) ==
    IF m = 0 THEN <<0, 0>>
    ELSE IF m % 2 = 0 THEN Canon(m \div 2, e + 1)
    ELSE <<m, e>>

\* The float nearest to N * 2^e, ties to even.
RoundP(N, e) ==
    LET a == Abs(N)
        sg == IF N < 0 THEN -1 ELSE 1
        sh == BitLen(a) - MantBits
    IN IF sh <= 0 THEN Canon(N, e)
       ELSE LET q == a \div (2 ^ sh)
                r == a % (2 ^ sh)
                half == 2 ^ (sh - 1)
                up == r > half \/ (r = half /\ q % 2 = 1)
            IN Canon(sg * (IF up THEN q + 1 ELSE q), e + sh)

FZero == <<0, 0>>
FOne == <<1, 0>>

\* x + y in floating point.
FAdd(x, y) ==
    IF x[1] = 0 THEN y
    ELSE IF y[1] = 0 THEN x
    ELSE LET e == Min(x[2], y[2])
         IN RoundP(x[1] * (2 ^ (x[2] - e)) + y[1] * (2 ^ (y[2] - e)), e)

\* x / y in floating point, y # 0: the quotient to MantBits + 3 bits or
\* more with a sticky bit for the remainder, then rounded.
FDiv(x, y) ==
    LET sg == IF (x[1] < 0) # (y[1] < 0) THEN -1 ELSE 1
        sc == MantBits + 2 + BitLen(Abs(y[1]))
        num == Abs(x[1]) * (2 ^ sc)
        q == num \div Abs(y[1])
        sticky == IF num % Abs(y[1]) = 0 THEN 0 ELSE 1
    IN IF x[1] = 0 THEN FZero
       ELSE RoundP(sg * (2 * q + sticky), x[2] - y[2] - sc - 1)

(***************************************************************************)
(* average_cells, fill_cells (CellAggregator)                              *)
(***************************************************************************)
CSize == 2
CMaxId == 1

\* np.max(vor)
MaxOf(g) ==
    LET S == {At(g, i, j) : i \in 0..(Len(g) - 1), j \in 0..(Len(g) - 1)}
    IN CHOOSE x \in S : \A y \in S : y <= x

\* The loop of average_cells over its first t pixels, row-major: the arrays
\* sum_ and count (indexed by cell id), or "IndexError" once data[i, j] was
\* read outside data.
RECURSIVE Accumulate(_, _, _)
Accumulate(v, d, t) ==
    IF t = 0
    THEN [err |-> FALSE,
          sum_ |-> [p \in 0..MaxOf(v) |-> FZero],
          count |-> [p \in 0..MaxOf(v) |-> FZero]]
    ELSE LET prev == Accumulate(v, d, t - 1)
             size == Len(v)
             i == (t - 1) \div size
             j == (t - 1) % size
             p == At(v, i, j)
         IN IF prev.err \/ i >= Len(d) \/ j >= Len(d)
            THEN [prev EXCEPT !.err = TRUE]
            ELSE [err |-> FALSE,
                  sum_ |-> [prev.sum_ EXCEPT ![p] = FAdd(@, At(d, i, j))],
                  count |-> [prev.count EXCEPT ![p] = FAdd(@, FOne)]]

\* A slip in the divisor: every sum is divided by the number of pixels of the
\* whole grid instead of the cell's own count.
DivideWhere_ByTotal(sum_, count) ==
    LET RECURSIVE Total(_)
        Total(p) == IF p < 0 THEN FZero ELSE FAdd(Total(p - 1), count[p])
        top == CHOOSE p \in DOMAIN count : \A q \in DOMAIN count : q <= p
    IN [p \in DOMAIN count |->
           IF count[p] # FZero THEN FDiv(sum_[p], Total(top)) ELSE FZero]

\* np.divide(sum_, count, out=np.zeros_like(count), where=count != 0)
DivideWhere(sum_, count) ==
    [p \in DOMAIN count |->
        IF count[p] # FZero THEN FDiv(sum_[p], count[p]) ELSE FZero]

\* average_cells(vor, data)
average_cells(v, d) ==
    LET acc == Accumulate(v, d, Len(v) * Len(v))
    IN IF acc.err THEN [err |-> TRUE, val |-> <<>>]
       ELSE [err |-> FALSE, val |-> DivideWhere(acc.sum_, acc.count)]

\* fill_cells(vor, data): image[i, j] = data[vor[i, j]]
fill_cells(v, d) ==
    [r \in 1..Len(v) |-> [c \in 1..Len(v) |-> d[v[r][c]]]]

AverageCells ==
    /\ pcC = "average_cells"
    /\ LET res == average_cells(vor, data)
       IN IF res.err
          THEN pcC' = "IndexError" /\ UNCHANGED average
          ELSE pcC' = "fill_cells" /\ average' = res.val
    /\ UNCHANGED <<vor, data, image>>

FillCells ==
    /\ pcC = "fill_cells"
    /\ image' = fill_cells(vor, average)
    /\ pcC' = "done"
    /\ UNCHANGED <<vor, data, average>>

\* The constants the companion grid is filled with: zero and every float
\* with a full-width mantissa and exponent 0.
FloatInputs == {FZero} \cup {Canon(m, 0) : m \in (2 ^ (MantBits - 1))..(2 ^ MantBits - 1)}

ConstGrid(s, c) == [r \in 1..s |-> [col \in 1..s |-> c]]

\* The calls with a companion grid of the cell-id grid's own size.
InitCells ==
    /\ \E s \in 1..CSize : vor \in Grids(s, 0..CMaxId)
    /\ \E c \in FloatInputs : data = ConstGrid(Len(vor), c)
    /\ average = <<>>
    /\ image = <<>>
    /\ pcC = "average_cells"
    /\ IdleExcept("C")

\* The calls with a companion grid one smaller, equal or one larger.
InitCellsShapes ==
    /\ \E s \in 1..CSize : vor \in Grids(s, 0..CMaxId)
    /\ \E c \in FloatInputs, d \in {Len(vor) - 1, Len(vor), Len(vor) + 1} :
           data = ConstGrid(d, c)
    /\ average = <<>>
    /\ image = <<>>
    /\ pcC = "average_cells"
    /\ IdleExcept("C")

NextCells == (AverageCells \/ FillCells) /\ Frame("C")

SpecCells == InitCells /\ [][NextCells]_vars

SpecCellsShapes == InitCellsShapes /\ [][NextCells]_vars

\* The number of pixels of cell p.
PixelCount(v, p) ==
    Cardinality({ij \in (1..Len(v)) \X (1..Len(v)) : v[ij[1]][ij[2]] = p})

\* N is a float: its odd part fits the mantissa.
Representable(N) == BitLen(Abs(Canon(N, 0)[1])) <= MantBits

\* Every running sum c, 2c, .., n*c of the n pixels of a cell, and every
\* running count, is a float, for every cell of v.
ExactSums(v, c) ==
    \A p \in 0..MaxOf(v) : \A t \in 1..PixelCount(v, p) :
        Representable(t * c[1]) /\ Representable(t)

\* C3 as stated: on a constant companion grid fill_cells(vor,
\* average_cells(vor, data)) is the constant grid again, for every constant.
C3_ConstantRoundTripExact ==
    pcC = "done" => image = ConstGrid(Len(vor), data[1][1])

\* C3 amended: the round trip returns the constant grid whenever every running
\* sum of the constant over a cell is exactly representable; ids that own no
\* pixel get average 0 and are not read by fill_cells.
C3_ConstantRoundTripWhenSumsExact ==
    pcC = "done" =>
        /\ ExactSums(vor, data[1][1]) => image = ConstGrid(Len(vor), data[1][1])
        /\ \A p \in 0..MaxOf(vor) : PixelCount(vor, p) = 0 => average[p] = FZero

\* C3's case: a grid of two cells, a constant that is neither zero nor a
\* power of two and whose running sums are exact, and the constant grid
\* returned.
C3_Witness ==
    /\ pcC = "done"
    /\ data[1][1] # FZero
    /\ data[1][1][1] # 1
    /\ PixelCount(vor, 0) >= 2
    /\ PixelCount(vor, 1) >= 1
    /\ ExactSums(vor, data[1][1])
    /\ image = ConstGrid(Len(vor), data[1][1])

\* C7: a companion grid whose size differs from the cell-id grid's makes
\* average_cells fail; it never returns averages.
C7_SizeMismatchFailsFast ==
    Len(data) # Len(vor) => pcC \notin {"fill_cells", "done"}

(***************************************************************************)
(* quantize (HeightShaper)                                                 *)
(* A value v of data is the integer v * QRes; a bin edge is kept as its    *)
(* numerator over the denominator n * QRes, so the edges -1 + 2k/n are     *)
(* exact.                                                                  *)
(***************************************************************************)
QRes == 6
MaxBins == 3

\* np.linspace(-1, 1, n + 1), each edge times n * QRes.
linspace(n) == [t \in 1..(n + 1) |-> (2 * (t - 1) - n) * QRes]

\* np.digitize(x, bins) for increasing bins, right=False: the i with
\* bins[i-1] <= x < bins[i], which is the number of edges <= x.
digitize(x, bins, n) == Cardinality({t \in DOMAIN bins : bins[t] <= x * n})

\* ndarray.clip(lo, hi)
np_clip(x, lo, hi) == Min(Max(x, lo), hi)

\* The clip left out: the top edge v = 1 falls in band n.
quantize_NoClip(d, n) ==
    [t \in DOMAIN d |-> digitize(d[t], linspace(n), n) - 1]

\* quantize(data, n)
quantize(d, n) ==
    [t \in DOMAIN d |-> np_clip(digitize(d[t], linspace(n), n) - 1, 0, n - 1)]

Quantize ==
    /\ pcQ = "quantize"
    /\ q_out' = quantize(q_data, q_n)
    /\ pcQ' = "done"
    /\ UNCHANGED <<q_data, q_n>>

\* data holds two values of [-1, 1].
InitQuantize ==
    /\ q_data \in [1..2 -> (-QRes)..QRes]
    /\ q_n \in 1..MaxBins
    /\ q_out = <<>>
    /\ pcQ = "quantize"
    /\ IdleExcept("Q")

NextQuantize == Quantize /\ Frame("Q")

SpecQuantize == InitQuantize /\ [][NextQuantize]_vars

\* The equal-width bin of [-1, 1] that holds v: bin b is
\* [-1 + 2b/n, -1 + 2(b+1)/n), the last bin closed at 1.
BinOf(v, n) ==
    CHOOSE b \in 0..(n - 1) :
        /\ (2 * b - n) * QRes <= v * n
        /\ \/ v * n < (2 * (b + 1) - n) * QRes
           \/ (b = n - 1 /\ v = QRes)

HSize == 1
HRes == 2

\* int(x / d) of astype(int): truncation towards zero.
TruncDiv(x, d) == IF x >= 0 THEN x \div d ELSE -((-x) \div d)

\* Lines 207-210 for one pixel: the light where the land mask is set, half
\* the smoothed height elsewhere (in units of 1 / (2 * HRes)), mapped by
\* np.interp from (-1, 1) to (-192, 192) (np.interp holds the end values
\* outside the interval) and truncated by astype(int).
ShadeOffset(light, smooth, land) ==
    LET x == IF land THEN 2 * light ELSE smooth
        xc == Min(Max(x, -2 * HRes), 2 * HRes)
    IN TruncDiv(192 * xc, 2 * HRes)

\* out_map = im_map + normal_map_color
ApplyHeightMap ==
    /\ pcH = "apply_height_map"
    /\ out_map' =
          [r \in 1..Len(im_map) |-> [c \in 1..Len(im_map) |->
              [ch \in 1..3 |->
                  im_map[r][c][ch]
                      + ShadeOffset(normal_light[r][c], smooth_map[r][c], land_mask[r][c])]]]
    /\ pcH' = "done"
    /\ UNCHANGED <<im_map, normal_light, smooth_map, land_mask>>

ChannelInputs == {0, 1, 128, 254, 255}

InitHeight ==
    /\ im_map \in Grids(HSize, [1..3 -> ChannelInputs])
    /\ normal_light \in Grids(HSize, (-HRes)..HRes)
    /\ smooth_map \in Grids(HSize, (-HRes)..HRes)
    /\ land_mask \in Grids(HSize, BOOLEAN)
    /\ out_map = <<>>
    /\ pcH = "apply_height_map"
    /\ IdleExcept("H")

NextHeight == ApplyHeightMap /\ Frame("H")

SpecHeight == InitHeight /\ [][NextHeight]_vars

\* C5: every channel of the grid apply_height_map returns lies in [0, 255].
C5_OutputChannelsClipped ==
    pcH = "done" =>
        \A r \in 1..Len(out_map), c \in 1..Len(out_map), ch \in 1..3 :
            out_map[r][c][ch] \in 0..255

(***************************************************************************)
(* generate_trees, filter_inbox, place_trees (Scatterer)                   *)
(* A relaxed point is <<x, y>> with both coordinates in halves (x = 3 is   *)
(* 1.5); relax clips them into [0, size].  The points are indices of a     *)
(* boolean grid only, so their order and repetitions are immaterial and    *)
(* an array of points is the set of its rows.  Mask values and thresholds  *)
(* are in tenths.                                                          *)
(***************************************************************************)
TSize == 2
MaxTrees == 2
a_default == 5
height_limit == 5

\* ndarray.astype(np.uint32) of a non-negative float: truncation.
astype_uint32(pts) == {<<p[1] \div 2, p[2] \div 2>> : p \in pts}

\* The comparison taken as <=: a coordinate equal to size stays.
filter_inbox_Inclusive(pts, size) == {p \in pts : p[1] <= size /\ p[2] <= size}

\* filter_inbox(pts, size=size): np.all(pts < size, axis=1)
filter_inbox(pts, size) == {p \in pts : p[1] < size /\ p[2] < size}

\* What relax(trees, size, k=10) may return for n seed points: between 1 and
\* n points, each coordinate clipped into [0, size] (line 53).
RECURSIVE UpTo(_, _)
UpTo(P, n) ==
    IF n = 0 THEN {{}}
    ELSE LET prev == UpTo(P, n - 1)
         IN prev \cup {S \cup {p} : S \in prev, p \in P}

RelaxedSets(n, size) ==
    UpTo((0..(2 * size)) \X (0..(2 * size)), n) \ {{}}

\* generate_trees(n, size=size)
GenerateTrees ==
    /\ pcT = "generate_trees"
    /\ \E S \in RelaxedSets(n_trees, Len(mask)) :
          /\ relaxed' = S
          /\ trees' = filter_inbox(astype_uint32(S), Len(mask))
    /\ pcT' = "place_trees"
    /\ UNCHANGED <<n_trees, mask, river_land_mask, adjusted_height_river_map,
                   output_trees>>

\* np.array(np.where(g == 1))[::-1].T: the True positions in row-major
\* order, each as (column, row).
RECURSIVE WhereReversed(_, _)
WhereReversed(g, t) ==
    IF t = 0 THEN <<>>
    ELSE LET size == Len(g)
             r == (t - 1) \div size
             c == (t - 1) % size
         IN IF At(g, r, c)
            THEN Append(WhereReversed(g, t - 1), <<c, r>>)
            ELSE WhereReversed(g, t - 1)

\* Lines 287-296 of place_trees: rr, cc = trees.T; output_trees[rr, cc] = True
\* (an IndexError for an index outside the grid); the product with the three
\* masks; the coordinates of what is left.
PlaceTrees ==
    /\ pcT = "place_trees"
    /\ LET size == Len(mask)
           painted == [r \in 1..size |-> [c \in 1..size |-> <<r - 1, c - 1>> \in trees]]
           kept == [r \in 1..size |-> [c \in 1..size |->
                       /\ painted[r][c]
                       /\ mask[r][c] > a_default
                       /\ river_land_mask[r][c]
                       /\ adjusted_height_river_map[r][c] < height_limit]]
       IN IF \E p \in trees : p[1] >= size \/ p[2] >= size
          THEN pcT' = "IndexError" /\ UNCHANGED output_trees
          ELSE pcT' = "done" /\ output_trees' = WhereReversed(kept, size * size)
    /\ UNCHANGED <<n_trees, mask, river_land_mask, adjusted_height_river_map,
                   relaxed, trees>>

\* The mask grids: set everywhere, on the first row only, or on the first
\* column only.
MaskPatterns == {"all", "row0", "col0"}

PatternGrid(s, pat, yes, no) ==
    [r \in 1..s |-> [c \in 1..s |->
        IF pat = "all" \/ (pat = "row0" /\ r = 1) \/ (pat = "col0" /\ c = 1)
        THEN yes ELSE no]]

InitTrees ==
    /\ n_trees \in 1..MaxTrees
    /\ \E pm \in MaskPatterns : mask = PatternGrid(TSize, pm, 10, a_default)
    /\ \E pr \in MaskPatterns : river_land_mask = PatternGrid(TSize, pr, TRUE, FALSE)
    /\ \E ph \in MaskPatterns :
           adjusted_height_river_map = PatternGrid(TSize, ph, 0, height_limit)
    /\ relaxed = {}
    /\ trees = {}
    /\ output_trees = <<>>
    /\ pcT = "generate_trees"
    /\ IdleExcept("T")

NextTrees == (GenerateTrees \/ PlaceTrees) /\ Frame("T")

SpecTrees == InitTrees /\ [][NextTrees]_vars

\* C6: place_trees uses no index outside the grid, and every pair (c, r) it
\* returns lies in [0, size) on both axes, is the truncated position (r, c)
\* of a relaxed point whose truncation is below size on both axes, and has
\* mask[r, c] > a, river_land_mask[r, c] set and
\* adjusted_height_river_map[r, c] < 0.5.
C6_TreesInsideMasks ==
    /\ pcT # "IndexError"
    /\ \A p \in trees : p[1] \in 0..(Len(mask) - 1) /\ p[2] \in 0..(Len(mask) - 1)
    /\ pcT = "done" =>
          \A t \in 1..Len(output_trees) :
              LET c == output_trees[t][1]
                  r == output_trees[t][2]
              IN /\ r \in 0..(Len(mask) - 1) /\ c \in 0..(Len(mask) - 1)
                 /\ \E q \in relaxed :
                        /\ q[1] \div 2 = r /\ q[2] \div 2 = c
                        /\ q[1] < 2 * Len(mask) /\ q[2] < 2 * Len(mask)
                 /\ At(mask, r, c) > a_default
                 /\ At(river_land_mask, r, c)
                 /\ At(adjusted_height_river_map, r, c) < height_limit

\* C6's case: one relaxed point clipped onto the edge (a coordinate equal to
\* size) is dropped, another one at row 0, column 1 is returned as (1, 0)
\* under masks that are set on row 0 only.
C6_Witness ==
    /\ pcT = "done"
    /\ \E q \in relaxed : q[1] = 2 * Len(mask)
    /\ output_trees = << <<1, 0>> >>
    /\ ~(At(mask, 1, 0) > a_default)

(***************************************************************************)
(* compute_normal_map (ShadingEngine normal map)                           *)
(* numpy's floating point with its non-finite values: a value is finite    *)
(* ([k |-> "fin"], v the value times NScale, in fixed point), an infinity  *)
(* (v its sign) or NaN.  Division by zero raises nothing in numpy: it      *)
(* yields an infinity, or NaN for 0 / 0, and both propagate.               *)
(***************************************************************************)
NSize == 2
GMax == 1
NScale == 100

Fin(v) == [k |-> "fin", v |-> v]
Inf(sg) == [k |-> "inf", v |-> sg]
NaN == [k |-> "nan", v |-> 0]
Sign(x) == IF x < 0 THEN -1 ELSE 1

XDiv(x, y) ==
    IF x.k = "nan" \/ y.k = "nan" THEN NaN
    ELSE IF y.k = "inf" THEN (IF x.k = "inf" THEN NaN ELSE Fin(0))
    ELSE IF x.k = "inf" THEN Inf(x.v * Sign(y.v))
    ELSE IF y.v = 0 THEN (IF x.v = 0 THEN NaN ELSE Inf(Sign(x.v)))
    ELSE Fin(TruncDiv(x.v * NScale, Abs(y.v)) * Sign(y.v))

XMul(x, y) ==
    IF x.k = "nan" \/ y.k = "nan" THEN NaN
    ELSE IF x.k = "inf" \/ y.k = "inf"
         THEN (IF x.v = 0 \/ y.v = 0 THEN NaN ELSE Inf(Sign(x.v) * Sign(y.v)))
    ELSE Fin(TruncDiv(x.v * y.v, NScale))

XAdd(x, y) ==
    IF x.k = "nan" \/ y.k = "nan" THEN NaN
    ELSE IF x.k = "inf" /\ y.k = "inf" THEN (IF x.v = y.v THEN x ELSE NaN)
    ELSE IF x.k = "inf" THEN x
    ELSE IF y.k = "inf" THEN y
    ELSE Fin(x.v + y.v)

\* np.sqrt: NaN for a negative argument.
XSqrt(x) ==
    IF x.k = "nan" THEN NaN
    ELSE IF x.k = "inf" THEN (IF x.v > 0 THEN x ELSE NaN)
    ELSE IF x.v < 0 THEN NaN
    ELSE Fin(CHOOSE r \in 0..(x.v + NScale) :
                 r * r <= x.v * NScale /\ x.v * NScale < (r + 1) * (r + 1))

\* max_value: the larger of np.max(gradient_x) and np.max(gradient_y).
MaxValue(gx, gy) ==
    LET max_x == MaxOf(gx)
        max_y == MaxOf(gy)
    IN IF max_y > max_x THEN max_y ELSE max_x

\* compute_normal_map(gradient_x, gradient_y, intensity), lines 163-191: the
\* three components of every pixel.
compute_normal_map(gx, gy, intensity) ==
    LET max_value == Fin(MaxValue(gx, gy) * NScale)
        inv_int == XDiv(Fin(NScale), Fin(intensity * NScale))
        strength == XDiv(max_value, XMul(max_value, inv_int))
        half == Fin(NScale \div 2)
        Pixel(r, c) ==
            LET n0 == XDiv(Fin(gx[r][c] * NScale), max_value)
                n1 == XDiv(Fin(gy[r][c] * NScale), max_value)
                n2 == XDiv(Fin(NScale), strength)
                norm == XSqrt(XAdd(XAdd(XMul(n0, n0), XMul(n1, n1)), XMul(n2, n2)))
            IN [ch \in 1..3 |->
                   XAdd(XMul(XDiv(IF ch = 1 THEN n0 ELSE IF ch = 2 THEN n1 ELSE n2,
                                  norm), half), half)]
    IN [r \in 1..Len(gx) |-> [c \in 1..Len(gx) |-> Pixel(r, c)]]

ComputeNormalMap ==
    /\ pcN = "compute_normal_map"
    /\ normal_map' = compute_normal_map(gradient_x, gradient_y, 1)
    /\ pcN' = "done"
    /\ UNCHANGED <<gradient_x, gradient_y>>

InitNormal ==
    /\ gradient_x \in Grids(NSize, (-GMax)..GMax)
    /\ gradient_y \in Grids(NSize, (-GMax)..GMax)
    /\ normal_map = <<>>
    /\ pcN = "compute_normal_map"
    /\ IdleExcept("N")

NextNormal == ComputeNormalMap /\ Frame("N")

SpecNormal == InitNormal /\ [][NextNormal]_vars

\* C8: when the larger gradient maximum is 0 or negative, every component of
\* the returned normal map is a finite value in [0, 1].
C8_ZeroGradientGuarded ==
    (pcN = "done" /\ MaxValue(gradient_x, gradient_y) <= 0) =>
        \A r \in 1..NSize, c \in 1..NSize, ch \in 1..3 :
            /\ normal_map[r][c][ch].k = "fin"
            /\ normal_map[r][c][ch].v \in 0..NScale

(***************************************************************************)
(* voronoi_map (VoronoiBuilder rasterization)                              *)
(* vor.regions is a list of vertex-index lists in which -1 stands for a    *)
(* vertex at infinity.  A region is modelled with its index list and       *)
(* cover, the pixels (rr, cc) skimage's polygon() yields for the vertices  *)
(* the list names.  scipy fixes no position for a region in the list: the  *)
(* empty region and the bounded ones may sit at any index, 0 included.     *)
(***************************************************************************)
VSize == 2
VMaxRegions == 3

\* len(region) == 0 or -1 in region
Skipped(region) ==
    Len(region.idx) = 0 \/ \E t \in 1..Len(region.idx) : region.idx[t] = -1

\* np.where((0 <= rr) & (rr < size) & (0 <= cc) & (cc < size))
InBox(px, size) == {q \in px : 0 <= q[1] /\ q[1] < size /\ 0 <= q[2] /\ q[2] < size}

\* One iteration of the loop of voronoi_map: region i = region_i.
PaintRegion ==
    /\ pcV = "loop"
    /\ LET region == regions[region_i + 1]
           px == InBox(region.cover, Len(vmap))
       IN vmap' = IF Skipped(region) THEN vmap
                  ELSE [r \in 1..Len(vmap) |-> [c \in 1..Len(vmap) |->
                           IF <<r - 1, c - 1>> \in px THEN region_i ELSE vmap[r][c]]]
    /\ region_i' = region_i + 1
    /\ pcV' = IF region_i + 1 = Len(regions) THEN "done" ELSE "loop"
    /\ UNCHANGED regions

\* The pixels a polygon may cover: those of the grid, one left of it and one
\* right of it.
PixelPool == ((0..(VSize - 1)) \X (0..(VSize - 1))) \cup {<<-1, 0>>, <<0, VSize>>}

RegionInputs ==
    {[idx |-> <<>>, cover |-> {}]}
        \cup {[idx |-> ix, cover |-> cv] :
                 ix \in {<<0, -1, 1>>, <<0, 1, 2>>}, cv \in UpTo(PixelPool, 2)}

InitVoronoiMap ==
    /\ \E len \in 1..VMaxRegions : regions \in [1..len -> RegionInputs]
    /\ vmap = [r \in 1..VSize |-> [c \in 1..VSize |-> 0]]
    /\ region_i = 0
    /\ pcV = "loop"
    /\ IdleExcept("V")

NextVoronoiMap == PaintRegion /\ Frame("V")

SpecVoronoiMap == InitVoronoiMap /\ [][NextVoronoiMap]_vars

\* Region i is bounded and its polygon covers pixel (r, c).
Covers(i, r, c) ==
    /\ i \in 0..(Len(regions) - 1)
    /\ ~Skipped(regions[i + 1])
    /\ <<r, c>> \in regions[i + 1].cover

\* C9: every pixel holds 0 or the index of a bounded region painted so far
\* that covers it, and after voronoi_map a pixel holds 0 exactly when no
\* bounded region covers it.
C9_ZeroIffUncovered ==
    \A r \in 0..(VSize - 1), c \in 0..(VSize - 1) :
        /\ pcV \in {"loop", "done"} =>
              \/ At(vmap, r, c) = 0
              \/ (At(vmap, r, c) < region_i /\ Covers(At(vmap, r, c), r, c))
        /\ pcV = "done" =>
              (At(vmap, r, c) = 0 <=> ~\E i \in 0..(Len(regions) - 1) : Covers(i, r, c))

(***************************************************************************)
(* voronoi, relax (PointRelaxer)                                           *)
(* A coordinate is an integer number of twelfths.  scipy's Voronoi is      *)
(* outside the source: a tessellation of n points plus the four edge       *)
(* points is any record of regions (a bounded one per point, an unbounded  *)
(* one per edge point, one empty) and point_region (the index of each      *)
(* point's region), the regions in whatever order Qhull lists them.        *)
(***************************************************************************)
RSize == 2
RPoints == 2
MaxK == 2
RUnit == 12

\* vor.vertices, indices 0..4.
VorVertices ==
    << <<-36, 0>>, <<12, 0>>, <<12, 24>>, <<36, 24>>, <<0, 12>> >>

\* The vertex-index lists of the bounded regions.
BoundedShapes == {<<0, 1, 4>>, <<1, 2, 3>>, <<1, 2, 4>>}

\* The tessellations of n points: point j's region sits at index pr[j], the
\* lowest index left is the empty region, the rest are the edge points'.
Tessellations(n) ==
    LET slots == 0..(n + 4)
        inj == {pr \in [1..n -> slots] : \A i, j \in 1..n : i # j => pr[i] # pr[j]}
    IN {[point_region |-> pr,
         regions |->
            [t \in 1..(n + 5) |->
                IF \E j \in 1..n : pr[j] = t - 1
                THEN sh[CHOOSE j \in 1..n : pr[j] = t - 1]
                ELSE IF \A u \in 0..(t - 2) : \E j \in 1..n : pr[j] = u
                     THEN <<>>
                     ELSE <<-1, 0, 1>>]] :
           pr \in inj, sh \in [1..n -> BoundedShapes]}

RECURSIVE SumCoord(_, _, _)
SumCoord(region, axis, t) ==
    IF t = 0 THEN 0
    ELSE VorVertices[region[t] + 1][axis] + SumCoord(region, axis, t - 1)

\* poly = np.array([vor.vertices[i] for i in region]); poly.mean(axis=0)
Centroid(region) ==
    <<SumCoord(region, 1, Len(region)) \div Len(region),
      SumCoord(region, 2, Len(region)) \div Len(region)>>

\* ndarray.clip(0, size) of one point.
ClipPoint(p, size) ==
    <<np_clip(p[1], 0, size * RUnit), np_clip(p[2], 0, size * RUnit)>>

\* The inner loop of relax over the first t regions: the centroids of those
\* that are neither empty nor unbounded, in the order of vor.regions.
RECURSIVE Centers(_, _)
Centers(rs, t) ==
    IF t = 0 THEN <<>>
    ELSE IF Len(rs[t]) = 0 \/ \E u \in 1..Len(rs[t]) : rs[t][u] = -1
         THEN Centers(rs, t - 1)
         ELSE Append(Centers(rs, t - 1), Centroid(rs[t]))

\* One iteration of the loop of relax.
RelaxIteration ==
    /\ pcR = "loop"
    /\ iter < k
    /\ \E vr \in Tessellations(Len(new_points)) :
          /\ tess' = vr
          /\ new_points' =
                LET cs == Centers(vr.regions, Len(vr.regions))
                IN [j \in 1..Len(cs) |-> ClipPoint(cs[j], RSize)]
    /\ iter' = iter + 1
    /\ UNCHANGED <<points, k, pcR>>

\* return new_points
RelaxReturn ==
    /\ pcR = "loop"
    /\ iter = k
    /\ pcR' = "done"
    /\ UNCHANGED <<points, k, new_points, iter, tess>>

PointInputs == {<<0, 0>>, <<12, 12>>, <<6, 18>>}

\* new_points = points.copy()
InitRelax ==
    /\ points \in {ps \in [1..RPoints -> PointInputs] :
                      \A i, j \in 1..RPoints : i # j => ps[i] # ps[j]}
    /\ k \in 0..MaxK
    /\ new_points = points
    /\ iter = 0
    /\ tess = <<>>
    /\ pcR = "loop"
    /\ IdleExcept("R")

NextRelax == (RelaxIteration \/ RelaxReturn) /\ Frame("R")

SpecRelax == InitRelax /\ [][NextRelax]_vars

\* C10: relax with k = 0 returns the input points, and after every iteration
\* the point at position j is the clipped centroid of the region generated by
\* the point at position j of the iteration's input, with every coordinate
\* in [0, size].
C10_RelaxKeepsPointOrder ==
    /\ (pcR = "done" /\ k = 0) => new_points = points
    /\ (pcR \in {"loop", "done"} /\ iter >= 1) =>
          /\ Len(new_points) = RPoints
          /\ \A j \in 1..Len(new_points) :
                /\ new_points[j] =
                       ClipPoint(Centroid(tess.regions[tess.point_region[j] + 1]), RSize)
                /\ new_points[j][1] \in 0..(RSize * RUnit)
                /\ new_points[j][2] \in 0..(RSize * RUnit)

====
